---- MODULE Spec2Model ----
(***************************************************************************)
(* Model of kamodo_ccmc/flythrough/SatelliteFlythrough.py:                 *)
(*   TLETrajectory   - timestamp generation and TLE assignment loop        *)
(*   SampleTrajectory - synthetic orbit generation                         *)
(*   ModelFlythrough - validation, interpolation, output and plotting      *)
(*   SatelliteTrajectory - coordinate check and ephemeris request          *)
(*   __main__        - command-line dispatch and calls                     *)
(* Times are integer UTC seconds (the documented input domain).            *)
(* Sequences are 1-based; At0 gives the 0-based access of the source.      *)
(***************************************************************************)
EXTENDS Integers, Sequences, FiniteSets, TLC

VARIABLES
    \* ---- TLETrajectory ----
    tle_pc,          \* position in TLETrajectory
    tle_epochs,      \* tle_data['UTC_timestamps'], in file order
    start_utcts,     \* argument
    stop_utcts,      \* argument, reassigned at line 207
    req_stop,        \* the stop_utcts the caller passed (history)
    time_cadence,    \* argument
    method,          \* argument
    UTCtimestamps,   \* line 208
    ts_assignments,  \* line 262 (nearest only)
    loop_i,          \* loop variable of line 265
    tle_used,        \* per timestamp: TLE index whose propagation is stored in
                     \* results['c1'..'c3'], or -1 while still the initial zero
    n_writes,        \* per timestamp: number of stores by line 337 (history)
    cautions,        \* the 'Caution:' lines printed, in order
    tle_heap,        \* the numpy arrays allocated so far, by array identity
    tle_next_id,     \* the identity the next allocated array gets
    tle_refs,        \* which array UTCtimestamps and each key of results names
    tle_call_no,     \* 1 in the first call, 2 in its repetition (history)
    tle_first        \* what the first call returned: the arrays and a copy
                     \* of their contents at the return (history)

tleVars == <<tle_pc, tle_epochs, start_utcts, stop_utcts, req_stop,
             time_cadence, method, UTCtimestamps, ts_assignments, loop_i,
             tle_used, n_writes, cautions, tle_heap, tle_next_id, tle_refs,
             tle_call_no, tle_first>>

VARIABLES
    \* ---- SampleTrajectory ----
    smp_pc,          \* position in SampleTrajectory
    start_time,      \* argument
    stop_time,       \* argument
    cadence_n,       \* argument n
    lon_perorbit,    \* argument
    max_lat,         \* argument
    min_lat,         \* argument
    orbit_seconds,   \* line 130
    lat_phase,       \* lat of lines 138-141, as indices into pi_arr
    height_len,      \* len(height) of lines 138-142
    lon_num,         \* lon of lines 143-148: numerators over lon_den
    lon_den,         \* common denominator of lon
    sat_time_num,    \* sat_time of line 153: numerators over sat_time_den
    sat_time_den,    \* common denominator of sat_time
    c1_num,          \* c1 of line 155: numerators over lon_den
    c2_x4,           \* c2 of line 155, multiplied by 4
    c3_len,          \* len(c3) of line 155
    coord_tag,       \* second return value of line 160
    lon_exp,         \* binary exponent of lon_perorbit: the argument is
                     \* lon_perorbit * 2^lon_exp, and so is every non-zero
                     \* element of lon in units of 2^lon_exp
    wrap_passes      \* passes of the wrapping loops made so far (history)

smpVars == <<smp_pc, start_time, stop_time, cadence_n, lon_perorbit, max_lat,
             min_lat, orbit_seconds, lat_phase, height_len, lon_num, lon_den,
             sat_time_num, sat_time_den, c1_num, c2_x4, c3_len, coord_tag,
             lon_exp, wrap_passes>>

VARIABLES
    \* ---- ModelFlythrough ----
    fs,              \* the files that exist (paths as sequences of characters)
    mf               \* per caller: the invocation of ModelFlythrough in progress

mfVars == <<fs, mf>>

VARIABLES
    \* ---- SatelliteTrajectory ----
    sat              \* the call: position, arguments, locals, collaborator
                     \* calls made, returned coordinate tag, error raised

satVars == <<sat>>

VARIABLES
    \* ---- command line ----
    cli              \* the run of the script: position, len(argv), argv[1],
                     \* error raised, what was printed or returned, and the
                     \* parameter each argument of the call was bound to

cliVars == <<cli>>

vars == <<tleVars, smpVars, mfVars, satVars, cliVars>>

\* ------------------------------------------------------------------------
\* Bounds of the model
MaxTLE == 3        \* records in the TLE file
MaxEpoch == 5      \* TLE epochs are drawn from 0..MaxEpoch
MaxStart == 3      \* start_utcts is drawn from 0..MaxStart
MaxStop == 6       \* stop_utcts is drawn from 0..MaxStop
MaxCadence == 3    \* time_cadence is drawn from 1..MaxCadence
MaxEpochDay == 2   \* day-scale TLE epochs fall on days 1..MaxEpochDay
MaxStopDay == 3    \* day-scale stop_utcts falls on days 0..MaxStopDay

TimeStep == 900        \* SampleTrajectory: stop_time is a multiple of TimeStep
MaxStopSteps == 14     \* SampleTrajectory: stop_time <= MaxStopSteps * TimeStep
MaxVars == 1           \* ModelFlythrough: variables found in the model data
MaxPasses == 8         \* SampleTrajectory: passes of the wrapping loops followed

\* Program constant: the 24 hour threshold of the cautions
DaySeconds == 86400

\* Program constant: 90.*60., the seconds of one orbit
OrbitPeriod == 5400

\* Program constant: the degrees of a full turn in the wrapping loops
FullTurn == 360

\* Program constant: the shift of line 155
HalfTurn == 180

\* ------------------------------------------------------------------------
\* Helpers shared by the functions

At0(s, k) == s[k + 1]

Abs(x) == IF x < 0 THEN -x ELSE x

\* int(a / b) for b > 0: Python's int() truncates toward zero
IntQuot(a, b) == IF a >= 0 THEN a \div b ELSE -((-a) \div b)

\* np.linspace(lo, hi, num) for num >= 0, endpoint included
linspace(lo, hi, num) ==
    IF num = 0 THEN << >>
    ELSE IF num = 1 THEN << lo >>
    ELSE [k \in 1..num |-> lo + ((k - 1) * (hi - lo)) \div (num - 1)]

\* ------------------------------------------------------------------------
\* TLETrajectory, timestamp generation (lines 204-208)

\* mutant of StepCount: the increment of line 206 is missing
StepCountNoExtend(start, stop, cad) == IntQuot(stop - start, cad)

\* n after lines 204-206
StepCount(start, stop, cad) ==
    LET n0 == IntQuot(stop - start, cad)
    IN IF start + cad * n0 < stop THEN n0 + 1 ELSE n0

\* stop_utcts after line 207
ExtendedStop(start, stop, cad) ==
    LET n0 == IntQuot(stop - start, cad)
    IN IF start + cad * n0 < stop THEN start + cad * (n0 + 1) ELSE stop

\* ------------------------------------------------------------------------
\* TLETrajectory, index selection of one loop iteration

Positions(ts) == 0..(Len(ts) - 1)

\* mutant of ForwardIdx: the interior interval closed on the right
ForwardIdxClosed(i, ts, ep) ==
    IF i = 0 THEN {k \in Positions(ts) : At0(ts, k) < At0(ep, 0)}
    ELSE IF i < Len(ep)
    THEN {k \in Positions(ts) : At0(ts, k) >= At0(ep, i - 1)
                                /\ At0(ts, k) <= At0(ep, i)}
    ELSE {k \in Positions(ts) : At0(ts, k) > At0(ep, i - 1)}

\* idx of lines 269, 282-283 and 290
ForwardIdx(i, ts, ep) ==
    IF i = 0 THEN {k \in Positions(ts) : At0(ts, k) < At0(ep, 0)}
    ELSE IF i < Len(ep)
    THEN {k \in Positions(ts) : At0(ts, k) >= At0(ep, i - 1)
                                /\ At0(ts, k) < At0(ep, i)}
    ELSE {k \in Positions(ts) : At0(ts, k) >= At0(ep, i - 1)}

\* mutant of ForwardTle: the loop index itself is used as the TLE index
ForwardTleOffByOne(i) == i

\* tle_idx of lines 271, 284 and 291
ForwardTle(i) == IF i = 0 THEN 0 ELSE i - 1

\* ts_nearest[i, k] of line 261
TsNearest(i, k, ts, ep) == Abs(At0(ts, k) - At0(ep, i))

\* mutant of ArgMin: the last minimum instead of the first
ArgMinLast(k, ts, ep) ==
    CHOOSE i \in 0..(Len(ep) - 1) :
        /\ \A j \in 0..(Len(ep) - 1) : TsNearest(i, k, ts, ep) <= TsNearest(j, k, ts, ep)
        /\ \A j \in (i + 1)..(Len(ep) - 1) : TsNearest(i, k, ts, ep) < TsNearest(j, k, ts, ep)

\* np.argmin(ts_nearest, axis=0)[k] of line 262: the first minimum
ArgMin(k, ts, ep) ==
    CHOOSE i \in 0..(Len(ep) - 1) :
        /\ \A j \in 0..(Len(ep) - 1) : TsNearest(i, k, ts, ep) <= TsNearest(j, k, ts, ep)
        /\ \A j \in 0..(i - 1) : TsNearest(i, k, ts, ep) < TsNearest(j, k, ts, ep)

\* idx of line 303
NearestIdx(i, assign) == {k \in Positions(assign) : At0(assign, k) = i}

\* mutant of DiffIdx: a gap of exactly a day counts as well
DiffIdxInclusive(idx, ts, epoch) ==
    {k \in idx : Abs(At0(ts, k) - epoch) >= DaySeconds}

\* diff_idx of lines 273, 294 and 308
DiffIdx(idx, ts, epoch) == {k \in idx : Abs(At0(ts, k) - epoch) > DaySeconds}

\* ------------------------------------------------------------------------
\* TLETrajectory, the steps

TLEFiles == UNION {[1..m -> 0..MaxEpoch] : m \in 1..MaxTLE}

\* mutant of CallRaises: only the negative sample count is fatal
CallRaisesNegativeOnly(n) == n + 1 < 0

\* lines 208 and 226 for the sample count n+1: np.linspace raises for a
\* negative count and the vectorized UTCtstoJulianDate raises for an empty
\* array
CallRaises(n) == n + 1 <= 0

\* line 208 for the sample count n+1: np.linspace raises for a negative
\* count, before any array of the call exists
LinspaceRaises(n) == n + 1 < 0

\* the keys of results (lines 209-212)
ResultKeys == {"sat_time", "c1", "c2", "c3"}

\* mutant of ResultsRefs: the three position keys name one zeros array
ResultsRefsLinked(base) ==
    [utc |-> base, sat_time |-> base, c1 |-> base + 1, c2 |-> base + 1,
     c3 |-> base + 1]

\* lines 208-212: UTCtimestamps is the array np.linspace allocates,
\* results['sat_time'] is that same array, and c1, c2, c3 are three arrays
\* of their own from np.zeros
ResultsRefs(base) ==
    [utc |-> base, sat_time |-> base, c1 |-> base + 1, c2 |-> base + 2,
     c3 |-> base + 3]

\* the first identity not taken by the four arrays allocated at lines 208-212
NextFree(next) == next + 4

\* an element of np.zeros (lines 210-212)
ZeroPos == <<"0.0", -1, 0>>

\* component comp of calc_position(julian_dates[k], satellite) / R_earth_km
\* (lines 326-338) for the satellite of TLE record tle at timestamp t
Position(comp, tle, t) == <<comp, tle, t>>

\* arr[idx] = values of line 337 on the array with identity id
StoreAt(heap, id, idx, comp, tle, ts) ==
    [heap EXCEPT ![id] = [k \in 1..Len(@) |->
                             IF (k - 1) \in idx
                             THEN Position(comp, tle, ts[k]) ELSE @[k]]]

NoRefs == [utc |-> -1, sat_time |-> -1, c1 |-> -1, c2 |-> -1, c3 |-> -1]

NoFirst == [refs |-> NoRefs, snap |-> [f \in ResultKeys |-> << >>]]

TLEInit ==
    /\ tle_heap = [id \in {} |-> << >>]
    /\ tle_next_id = 0
    /\ tle_refs = NoRefs
    /\ tle_call_no = 0
    /\ tle_first = NoFirst
    /\ tle_pc = "idle"
    /\ tle_epochs = << >>
    /\ start_utcts = 0
    /\ stop_utcts = 0
    /\ req_stop = 0
    /\ time_cadence = 1
    /\ method = "forward"
    /\ UTCtimestamps = << >>
    /\ ts_assignments = << >>
    /\ loop_i = 0
    /\ tle_used = << >>
    /\ n_writes = << >>
    /\ cautions = << >>

\* lines 163-226: the call, the timestamp array, the zeroed results and the
\* Julian dates.  np.linspace raises for a negative count, and then the
\* call has allocated no array and named none; the vectorized
\* UTCtstoJulianDate raises for an empty array, after the four arrays of
\* lines 208-212 were allocated.
TLEEnter(file, start, stop, cad, meth) ==
    /\ LET n == StepCount(start, stop, cad)
           ts == IF LinspaceRaises(n)
                 THEN << >>
                 ELSE linspace(start, ExtendedStop(start, stop, cad), n + 1)
       IN /\ start_utcts' = start
          /\ req_stop' = stop
          /\ stop_utcts' = ExtendedStop(start, stop, cad)
          /\ time_cadence' = cad
          /\ method' = meth
          /\ UTCtimestamps' = ts
          /\ tle_used' = [k \in 1..Len(ts) |-> -1]
          /\ n_writes' = [k \in 1..Len(ts) |-> 0]
          /\ tle_pc' = IF CallRaises(n) THEN "error" ELSE "read"
          /\ IF LinspaceRaises(n)
             THEN /\ tle_refs' = NoRefs
                  /\ UNCHANGED <<tle_next_id, tle_heap>>
             ELSE LET refs == ResultsRefs(tle_next_id)
                      top == NextFree(tle_next_id)
                  IN /\ tle_refs' = refs
                     /\ tle_next_id' = top
                     /\ tle_heap' =
                           [id \in DOMAIN tle_heap
                                   \cup {refs.utc, refs.c1, refs.c2, refs.c3} |->
                               IF id = refs.utc THEN ts
                               ELSE IF id \in {refs.c1, refs.c2, refs.c3}
                               THEN [k \in 1..Len(ts) |-> ZeroPos]
                               ELSE tle_heap[id]]
    /\ tle_epochs' = file
    /\ ts_assignments' = << >>
    /\ loop_i' = 0
    /\ cautions' = << >>

\* a first call of TLETrajectory
TLECall(file, start, stop, cad, meth) ==
    /\ tle_pc = "idle"
    /\ TLEEnter(file, start, stop, cad, meth)
    /\ tle_call_no' = 1
    /\ tle_first' = tle_first

\* lines 228-262: the TLE epochs are read; the nearest method prepares the
\* assignment of every timestamp
TLERead ==
    /\ tle_pc = "read"
    /\ ts_assignments' =
          IF method = "nearest"
          THEN [k \in 1..Len(UTCtimestamps) |->
                    ArgMin(k - 1, UTCtimestamps, tle_epochs)]
          ELSE << >>
    /\ loop_i' = 0
    /\ tle_pc' = "loop"
    /\ UNCHANGED <<tle_epochs, start_utcts, stop_utcts, req_stop, time_cadence,
                   method, UTCtimestamps, tle_used, n_writes, cautions>>
    /\ UNCHANGED <<tle_heap, tle_next_id, tle_refs, tle_call_no, tle_first>>
    /\ UNCHANGED <<smpVars, mfVars, satVars, cliVars>>

\* mutant of LoopIdx: the iteration before the first epoch takes nothing
LoopIdxFirstSkipped(i) ==
    IF method = "forward"
    THEN IF i = 0 THEN {} ELSE ForwardIdx(i, UTCtimestamps, tle_epochs)
    ELSE NearestIdx(i, ts_assignments)

\* idx of iteration i under the chosen method
LoopIdx(i) ==
    IF method = "forward" THEN ForwardIdx(i, UTCtimestamps, tle_epochs)
    ELSE NearestIdx(i, ts_assignments)

\* tle_idx of iteration i under the chosen method
LoopTle(i) == IF method = "forward" THEN ForwardTle(i) ELSE i

\* the Caution lines iteration i prints (lines 272-276, 293-297, 306-315)
LoopCautions(i, idx) ==
    LET nrec == Len(tle_epochs)
        bef == DiffIdx(idx, UTCtimestamps, At0(tle_epochs, 0))
        aft == DiffIdx(idx, UTCtimestamps, At0(tle_epochs, nrec - 1))
    IN IF method = "forward"
       THEN IF i = 0 /\ bef # {} THEN << <<"before", Cardinality(bef)>> >>
            ELSE IF i = nrec /\ aft # {} THEN << <<"after", Cardinality(aft)>> >>
            ELSE << >>
       ELSE (IF i = 0 /\ bef # {}
             THEN << <<"before", Cardinality(bef)>> >> ELSE << >>)
            \o (IF i = nrec - 1 /\ DiffIdx(idx, UTCtimestamps, At0(tle_epochs, i)) # {}
                THEN << <<"after", Cardinality(DiffIdx(idx, UTCtimestamps,
                                                       At0(tle_epochs, i)))>> >>
                ELSE << >>)

\* lines 265-338: one iteration of the assignment loop
TLELoopStep ==
    /\ tle_pc = "loop"
    /\ loop_i <= Len(tle_epochs)
    /\ LET idx == LoopIdx(loop_i)
       IN IF idx = {}
          THEN UNCHANGED <<tle_used, n_writes, cautions, tle_heap>>
          ELSE /\ tle_heap' =
                    StoreAt(StoreAt(StoreAt(tle_heap,
                                            tle_refs.c1, idx, "x",
                                            LoopTle(loop_i), UTCtimestamps),
                                    tle_refs.c2, idx, "y",
                                    LoopTle(loop_i), UTCtimestamps),
                            tle_refs.c3, idx, "z",
                            LoopTle(loop_i), UTCtimestamps)
               /\ tle_used' = [k \in 1..Len(tle_used) |->
                                  IF (k - 1) \in idx THEN LoopTle(loop_i)
                                  ELSE tle_used[k]]
               /\ n_writes' = [k \in 1..Len(n_writes) |->
                                  IF (k - 1) \in idx THEN n_writes[k] + 1
                                  ELSE n_writes[k]]
               /\ cautions' = cautions \o LoopCautions(loop_i, idx)
    /\ loop_i' = loop_i + 1
    /\ UNCHANGED <<tle_pc, tle_epochs, start_utcts, stop_utcts, req_stop,
                   time_cadence, method, UTCtimestamps, ts_assignments>>
    /\ UNCHANGED <<tle_next_id, tle_refs, tle_call_no, tle_first>>
    /\ UNCHANGED <<smpVars, mfVars, satVars, cliVars>>

\* line 340
TLEReturn ==
    /\ tle_pc = "loop"
    /\ loop_i = Len(tle_epochs) + 1
    /\ tle_pc' = "done"
    /\ UNCHANGED <<tle_epochs, start_utcts, stop_utcts, req_stop, time_cadence,
                   method, UTCtimestamps, ts_assignments, loop_i, tle_used,
                   n_writes, cautions>>
    /\ UNCHANGED <<tle_heap, tle_next_id, tle_refs, tle_call_no, tle_first>>
    /\ UNCHANGED <<smpVars, mfVars, satVars, cliVars>>

\* a caller invokes TLETrajectory with some TLE file and time range
TLEStart ==
    /\ tle_pc = "idle"
    /\ \E file \in TLEFiles, start \in 0..MaxStart, stop \in 0..MaxStop,
          cad \in 1..MaxCadence, meth \in {"forward", "nearest"} :
            TLECall(file, start, stop, cad, meth)
    /\ UNCHANGED <<smpVars, mfVars, satVars, cliVars>>

TLENext ==
    \/ TLEStart
    \/ TLERead
    \/ TLELoopStep
    \/ TLEReturn

\* the caller keeps what the first call returned and calls TLETrajectory
\* again with the same file, start, stop, cadence and method
TLEAgain ==
    /\ tle_pc = "done"
    /\ tle_call_no = 1
    /\ TLEEnter(tle_epochs, start_utcts, req_stop, time_cadence, method)
    /\ tle_call_no' = 2
    /\ tle_first' = [refs |-> tle_refs,
                     snap |-> [f \in ResultKeys |-> tle_heap[tle_refs[f]]]]
    /\ UNCHANGED <<smpVars, mfVars, satVars, cliVars>>

TLETwiceNext ==
    \/ TLEStart
    \/ TLERead
    \/ TLELoopStep
    \/ TLEReturn
    \/ TLEAgain

\* ------------------------------------------------------------------------
\* Properties of TLETrajectory

LastRec == Len(tle_epochs) - 1

TLEDone(meth) == tle_pc = "done" /\ method = meth

\* the epochs are non-decreasing in file order
Chronological(ep) == \A a, b \in 1..Len(ep) : a <= b => ep[a] <= ep[b]

\* no record has an epoch earlier than the first record's
FirstIsEarliest(ep) == \A a \in 1..Len(ep) : ep[1] <= ep[a]

\* C1 as stated: forward, any TLE file: a timestamp before the first epoch
\* ends with TLE 0 and a timestamp at or after the last epoch ends with the
\* last TLE
C1_AnyFile ==
    TLEDone("forward") =>
        \A k \in Positions(UTCtimestamps) :
            /\ At0(UTCtimestamps, k) < At0(tle_epochs, 0) => At0(tle_used, k) = 0
            /\ At0(UTCtimestamps, k) >= At0(tle_epochs, LastRec)
                  => At0(tle_used, k) = LastRec

\* C1 amended: forward, a TLE file whose first epoch is not later than any
\* other epoch: a timestamp before the first epoch ends with TLE 0; and for
\* any TLE file a timestamp at or after the last epoch ends with the last TLE
C1_FirstAndLast ==
    TLEDone("forward") =>
        \A k \in Positions(UTCtimestamps) :
            /\ (FirstIsEarliest(tle_epochs)
                /\ At0(UTCtimestamps, k) < At0(tle_epochs, 0))
                  => At0(tle_used, k) = 0
            /\ At0(UTCtimestamps, k) >= At0(tle_epochs, LastRec)
                  => At0(tle_used, k) = LastRec

\* C1 witness: a finished forward run over several records with timestamps
\* on both sides of the file's span
C1_Witness ==
    /\ TLEDone("forward")
    /\ Len(tle_epochs) >= 2
    /\ FirstIsEarliest(tle_epochs)
    /\ \E k \in Positions(UTCtimestamps) :
          At0(UTCtimestamps, k) < At0(tle_epochs, 0) /\ At0(tle_used, k) = 0
    /\ \E k \in Positions(UTCtimestamps) :
          /\ At0(UTCtimestamps, k) >= At0(tle_epochs, LastRec)
          /\ At0(tle_used, k) = LastRec

\* the greatest record index whose epoch is at or before t
MostRecent(t, ep) ==
    CHOOSE j \in 0..(Len(ep) - 1) :
        /\ At0(ep, j) <= t
        /\ \A m \in (j + 1)..(Len(ep) - 1) : At0(ep, m) > t

\* C2: forward, chronological file: a timestamp at or after the first epoch
\* ends with the TLE of greatest index whose epoch is at or before it
C2_MostRecent ==
    (TLEDone("forward") /\ Chronological(tle_epochs)) =>
        \A k \in Positions(UTCtimestamps) :
            At0(UTCtimestamps, k) >= At0(tle_epochs, 0)
               => At0(tle_used, k) = MostRecent(At0(UTCtimestamps, k), tle_epochs)

\* C2 witness: a chronological file with a repeated epoch, one timestamp
\* served by an interior record and one by the last record
C2_Witness ==
    /\ TLEDone("forward")
    /\ Chronological(tle_epochs)
    /\ Len(tle_epochs) = 3
    /\ \E a \in 1..2 : tle_epochs[a] = tle_epochs[a + 1]
    /\ \E k \in Positions(UTCtimestamps) :
          /\ At0(UTCtimestamps, k) >= At0(tle_epochs, 0)
          /\ At0(tle_used, k) < LastRec
          /\ At0(tle_used, k) = MostRecent(At0(UTCtimestamps, k), tle_epochs)
    /\ \E k \in Positions(UTCtimestamps) : At0(tle_used, k) = LastRec

\* C3: nearest, any TLE file: the TLE used for a timestamp is one of the
\* closest in absolute time, and every record of lower index is farther
C3_Nearest ==
    TLEDone("nearest") =>
        \A k \in Positions(UTCtimestamps) :
            LET j == At0(tle_used, k)
                d(r) == Abs(At0(UTCtimestamps, k) - At0(tle_epochs, r))
            IN /\ j \in 0..LastRec
               /\ \A r \in 0..LastRec : d(j) <= d(r)
               /\ \A r \in 0..(j - 1) : d(r) > d(j)

\* C3 witness: a timestamp equally close to two records with different
\* epochs, served by the one of lower index
C3_Witness ==
    /\ TLEDone("nearest")
    /\ \E k \in Positions(UTCtimestamps) :
         \E r \in 0..LastRec :
            /\ r > At0(tle_used, k)
            /\ At0(tle_epochs, r) # At0(tle_epochs, At0(tle_used, k))
            /\ Abs(At0(UTCtimestamps, k) - At0(tle_epochs, r))
                 = Abs(At0(UTCtimestamps, k) - At0(tle_epochs, At0(tle_used, k)))

\* C4: for start <= stop the call yields start, start+cadence, ..., ending
\* at the smallest start+k*cadence that is >= the requested stop: equal to it
\* when cadence divides the range, less than one cadence above it otherwise
C4_Timestamps ==
    (tle_pc # "idle" /\ start_utcts <= req_stop) =>
        /\ tle_pc # "error"
        /\ Len(UTCtimestamps) >= 1
        /\ \A k \in Positions(UTCtimestamps) :
              At0(UTCtimestamps, k) = start_utcts + k * time_cadence
        /\ LET last == At0(UTCtimestamps, Len(UTCtimestamps) - 1)
           IN /\ last >= req_stop
              /\ last - time_cadence < req_stop \/ last = start_utcts
              /\ (req_stop - start_utcts) % time_cadence = 0 => last = req_stop
              /\ (req_stop - start_utcts) % time_cadence # 0
                    => (last > req_stop /\ last - req_stop < time_cadence)
              /\ stop_utcts = last

\* C4 witness: a range the cadence does not divide, extended past the
\* requested stop, with more than two timestamps
C4_Witness ==
    /\ tle_pc = "done"
    /\ start_utcts < req_stop
    /\ (req_stop - start_utcts) % time_cadence # 0
    /\ Len(UTCtimestamps) >= 3
    /\ At0(UTCtimestamps, Len(UTCtimestamps) - 1) > req_stop


\* ------------------------------------------------------------------------
\* SampleTrajectory.  The real-valued arrays are kept exactly: lon and
\* sat_time as integer numerators over a common denominator, the latitude
\* through the cosine of its phase.  All arguments are integers.

\* mutant of OrbitSeconds: the quotient rounded to the nearest integer
OrbitSecondsRounded(n) == (2 * OrbitPeriod + n) \div (2 * n)

\* orbit_seconds of line 130
OrbitSeconds(n) == IntQuot(OrbitPeriod, n)

\* int((stop_time-start_time)/float(n)) of lines 144, 150 and 154
NSamples(start, stop, n) == IntQuot(stop - start, n)

\* int(n_orbits) of lines 131 and 138
WholeOrbits(start, stop, n) == IntQuot(stop - start, OrbitSeconds(n) * n)

\* mutant of PartialLen: the partial last orbit is dropped
PartialLenDropped(start, stop, n) == 0

\* the number of samples lines 140-142 append: time_left of line 134 is
\* (stop-start)/n - int(n_orbits)*orbit_seconds, and the slice
\* pi_arr[0:int(time_left)] has at most orbit_seconds elements
PartialLen(start, stop, n) ==
    LET rest == (stop - start) - WholeOrbits(start, stop, n) * OrbitSeconds(n) * n
        intleft == IntQuot(rest, n)
    IN IF rest > 0
       THEN (IF intleft < OrbitSeconds(n) THEN intleft ELSE OrbitSeconds(n))
       ELSE 0

\* len(lat) = len(height) after lines 138-142
LatLen(start, stop, n) ==
    WholeOrbits(start, stop, n) * OrbitSeconds(n) + PartialLen(start, stop, n)

\* lat of lines 138-141 as the pi_arr index of every sample: np.tile repeats
\* 0..orbit_seconds-1, the partial orbit restarts at 0
LatPhase(start, stop, n) ==
    [k \in 1..LatLen(start, stop, n) |-> (k - 1) % OrbitSeconds(n)]

\* 2*cos(pi_arr[j]) for pi_arr = np.linspace(0, 2*pi, os): the angle is
\* 2*pi*j/(os-1); tabulated for the sample counts that give rational cosines
CosTimes2(os, j) ==
    IF os = 1 THEN 2
    ELSE IF os = 2 THEN 2
    ELSE IF os = 3 THEN At0(<<2, -2, 2>>, j)
    ELSE IF os = 4 THEN At0(<<2, -1, -1, 2>>, j)
    ELSE IF os = 5 THEN At0(<<2, 0, -2, 0, 2>>, j)
    ELSE At0(<<2, 1, -1, -2, -1, 1, 2>>, j)

\* mutant of LatTimes4: lat_scale is the full latitude span
LatTimes4FullSpan(cos2, maxl, minl) == cos2 * 2 * (maxl - minl) + 2 * (maxl + minl)

\* 4 * (lat*lat_scale + lat_offset) of lines 133 and 155, for lat = cos2/2:
\* lat_scale = (max_lat-min_lat)/2, lat_offset = (max_lat+min_lat)/2
LatTimes4(cos2, maxl, minl) == cos2 * (maxl - minl) + 2 * (maxl + minl)

\* denominator of lon: lon[k] = k * (lon_perorbit*n_orbits) / (N-1) with
\* n_orbits = (stop-start)/(orbit_seconds*n)
LonDen(start, stop, n) ==
    IF NSamples(start, stop, n) <= 1 THEN 1
    ELSE (NSamples(start, stop, n) - 1) * OrbitSeconds(n) * n

\* np.linspace(0., lon_perorbit*n_orbits, N) of lines 143-144
LonInit(start, stop, n, lpo) ==
    [k \in 1..NSamples(start, stop, n) |->
        IF NSamples(start, stop, n) = 1 THEN 0
        ELSE (k - 1) * lpo * (stop - start)]

\* x > 360. for the element x = num/den * 2^e of lon.  For e > 0 every
\* element with a positive numerator is far above 360 (den < 2^31).
AboveTurn(num, den, e) ==
    IF e = 0 THEN num > FullTurn * den ELSE num > 0

\* x < 0. for the element x = num/den * 2^e of lon
BelowZero(num, den, e) == num < 0

\* the numerator of x + c in float64 for the element x = num/den * 2^e and
\* c = cnum/den (c is 360., -360. or -180.).  For e = 0 the arithmetic is
\* exact.  For e >= 93 every non-zero element is at least 2^62 in size
\* (den < 2^31), where neighbouring float64 values are 1024 apart, so x + c
\* rounds back to x.
FloatAdd(num, cnum, e) ==
    IF e = 0 \/ num = 0 THEN num + cnum ELSE num

\* max(lon)
SeqMax(s) == CHOOSE x \in {s[k] : k \in 1..Len(s)} : \A k \in 1..Len(s) : s[k] <= x

\* the shapes of line 149 broadcast: equal, or one of them of length 1
Broadcast(a, b) == a = b \/ a = 1 \/ b = 1

BroadcastLen(a, b) == IF a = 1 THEN b ELSE a

SampleCadences == {1080, 1350, 1500, 1800, 2700, 5400, 6000}

SampleLons == {-10, 0, 90, 360, 363, 720, 800}

SampleLats == {-65, -10, 65}

SampleInit ==
    /\ smp_pc = "idle"
    /\ start_time = 0
    /\ stop_time = 0
    /\ cadence_n = 1
    /\ lon_perorbit = 0
    /\ max_lat = 0
    /\ min_lat = 0
    /\ orbit_seconds = 0
    /\ lat_phase = << >>
    /\ height_len = 0
    /\ lon_num = << >>
    /\ lon_den = 1
    /\ lon_exp = 0
    /\ wrap_passes = 0
    /\ sat_time_num = << >>
    /\ sat_time_den = 1
    /\ c1_num = << >>
    /\ c2_x4 = << >>
    /\ c3_len = 0
    /\ coord_tag = ""

\* lines 129-144: the parameters, the latitude and height tracks and the
\* unwrapped longitude.  Line 131 divides by zero when orbit_seconds is 0,
\* np.tile and np.linspace raise for a negative count.
SampleEnter(start, stop, n, lpo, e, maxl, minl) ==
    /\ smp_pc = "idle"
    /\ lon_exp' = e
    /\ wrap_passes' = 0
    /\ start_time' = start
    /\ stop_time' = stop
    /\ cadence_n' = n
    /\ lon_perorbit' = lpo
    /\ max_lat' = maxl
    /\ min_lat' = minl
    /\ orbit_seconds' = OrbitSeconds(n)
    /\ IF OrbitSeconds(n) = 0
       THEN /\ smp_pc' = "error"
            /\ UNCHANGED <<lat_phase, height_len, lon_num, lon_den>>
       ELSE IF WholeOrbits(start, stop, n) < 0 \/ NSamples(start, stop, n) < 0
       THEN /\ smp_pc' = "error"
            /\ UNCHANGED <<lat_phase, height_len, lon_num, lon_den>>
       ELSE /\ lat_phase' = LatPhase(start, stop, n)
            /\ height_len' = LatLen(start, stop, n)
            /\ lon_num' = LonInit(start, stop, n, lpo)
            /\ lon_den' = LonDen(start, stop, n)
            /\ smp_pc' = "wrap_hi"
    /\ UNCHANGED <<sat_time_num, sat_time_den, c1_num, c2_x4, c3_len, coord_tag>>

\* a call with a lon_perorbit of ordinary size
SampleCall(start, stop, n, lpo, maxl, minl) ==
    SampleEnter(start, stop, n, lpo, 0, maxl, minl)

\* lines 145-146: the test and one pass of the first wrapping loop; max()
\* of an empty array raises
SampleWrapHi ==
    /\ smp_pc = "wrap_hi"
    /\ wrap_passes < MaxPasses
    /\ IF Len(lon_num) = 0
       THEN smp_pc' = "error" /\ UNCHANGED <<lon_num, wrap_passes>>
       ELSE IF AboveTurn(SeqMax(lon_num), lon_den, lon_exp)
       THEN /\ lon_num' = [k \in 1..Len(lon_num) |->
                              IF AboveTurn(lon_num[k], lon_den, lon_exp)
                              THEN FloatAdd(lon_num[k], -FullTurn * lon_den,
                                            lon_exp)
                              ELSE lon_num[k]]
            /\ wrap_passes' = wrap_passes + 1
            /\ UNCHANGED smp_pc
       ELSE smp_pc' = "wrap_lo" /\ UNCHANGED <<lon_num, wrap_passes>>
    /\ UNCHANGED <<start_time, stop_time, cadence_n, lon_perorbit, max_lat,
                   min_lat, orbit_seconds, lat_phase, height_len, lon_den,
                   sat_time_num, sat_time_den, c1_num, c2_x4, c3_len, coord_tag,
                   lon_exp>>

\* lines 147-148: the test and one pass of the second wrapping loop
SampleWrapLo ==
    /\ smp_pc = "wrap_lo"
    /\ wrap_passes < MaxPasses
    /\ IF BelowZero(SeqMax(lon_num), lon_den, lon_exp)
       THEN /\ lon_num' = [k \in 1..Len(lon_num) |->
                              IF BelowZero(lon_num[k], lon_den, lon_exp)
                              THEN FloatAdd(lon_num[k], FullTurn * lon_den,
                                            lon_exp)
                              ELSE lon_num[k]]
            /\ wrap_passes' = wrap_passes + 1
            /\ UNCHANGED smp_pc
       ELSE smp_pc' = "store" /\ UNCHANGED <<lon_num, wrap_passes>>
    /\ UNCHANGED <<start_time, stop_time, cadence_n, lon_perorbit, max_lat,
                   min_lat, orbit_seconds, lat_phase, height_len, lon_den,
                   sat_time_num, sat_time_den, c1_num, c2_x4, c3_len, coord_tag,
                   lon_exp>>

\* lines 149-160: the height decay, the result dictionary and the return
SampleReturn ==
    /\ smp_pc = "store"
    /\ LET N == NSamples(start_time, stop_time, cadence_n)
       IN IF ~Broadcast(height_len, N)
          THEN /\ smp_pc' = "error"
               /\ UNCHANGED <<sat_time_num, sat_time_den, c1_num, c2_x4,
                              c3_len, coord_tag>>
          ELSE /\ c3_len' = BroadcastLen(height_len, N)
               /\ sat_time_den' = IF N <= 1 THEN 1 ELSE N - 1
               /\ sat_time_num' = [k \in 1..N |->
                                      IF N = 1 THEN start_time
                                      ELSE start_time * (N - 1)
                                           + (k - 1) * (stop_time - start_time)]
               /\ c1_num' = [k \in 1..Len(lon_num) |->
                                FloatAdd(lon_num[k], -HalfTurn * lon_den,
                                         lon_exp)]
               /\ c2_x4' = [k \in 1..Len(lat_phase) |->
                               LatTimes4(CosTimes2(orbit_seconds, lat_phase[k]),
                                         max_lat, min_lat)]
               /\ coord_tag' = "GDZ-sph"
               /\ smp_pc' = "done"
    /\ UNCHANGED <<start_time, stop_time, cadence_n, lon_perorbit, max_lat,
                   min_lat, orbit_seconds, lat_phase, height_len, lon_num,
                   lon_den, lon_exp, wrap_passes>>

\* a caller invokes SampleTrajectory
SampleStart ==
    /\ smp_pc = "idle"
    /\ \E k0 \in 0..1, k \in 0..MaxStopSteps, n \in SampleCadences,
          lpo \in SampleLons, maxl \in SampleLats, minl \in SampleLats :
            SampleCall(k0 * TimeStep, k * TimeStep, n, lpo, maxl, minl)

\* a caller invokes SampleTrajectory with a lon_perorbit of ordinary size
\* or of that size times 2^100
SampleStartAnySize ==
    /\ smp_pc = "idle"
    /\ \E k0 \in 0..1, k \in 0..MaxStopSteps, n \in SampleCadences,
          lpo \in SampleLons, e \in {0, 100} :
            SampleEnter(k0 * TimeStep, k * TimeStep, n, lpo, e, 65, -65)

SampleAnySizeNext ==
    \/ SampleStartAnySize /\ UNCHANGED <<tleVars, mfVars, satVars, cliVars>>
    \/ SampleWrapHi /\ UNCHANGED <<tleVars, mfVars, satVars, cliVars>>
    \/ SampleWrapLo /\ UNCHANGED <<tleVars, mfVars, satVars, cliVars>>
    \/ SampleReturn /\ UNCHANGED <<tleVars, mfVars, satVars, cliVars>>

SampleNext ==
    \/ SampleStart /\ UNCHANGED <<tleVars, mfVars, satVars, cliVars>>
    \/ SampleWrapHi /\ UNCHANGED <<tleVars, mfVars, satVars, cliVars>>
    \/ SampleWrapLo /\ UNCHANGED <<tleVars, mfVars, satVars, cliVars>>
    \/ SampleReturn /\ UNCHANGED <<tleVars, mfVars, satVars, cliVars>>


\* ------------------------------------------------------------------------
\* Properties of SampleTrajectory

SampleDone == smp_pc = "done"

SampleFinished == smp_pc \in {"done", "error"}

\* C5 as stated: every returned c1 lies in [-180, 180)
C5_LonRange ==
    SampleDone =>
        \A k \in 1..Len(c1_num) :
            /\ c1_num[k] >= -HalfTurn * lon_den
            /\ c1_num[k] < HalfTurn * lon_den

\* C6: with min_lat <= max_lat every returned c2 lies in [min_lat, max_lat]
C6_LatRange ==
    (SampleDone /\ min_lat <= max_lat) =>
        \A k \in 1..Len(c2_x4) :
            /\ c2_x4[k] >= 4 * min_lat
            /\ c2_x4[k] <= 4 * max_lat

\* C6 witness: a trajectory with whole orbits and a partial last orbit whose
\* latitude reaches both max_lat and min_lat and a value strictly between
C6_Witness ==
    /\ SampleDone
    /\ min_lat < max_lat
    /\ WholeOrbits(start_time, stop_time, cadence_n) >= 1
    /\ PartialLen(start_time, stop_time, cadence_n) >= 1
    /\ \E k \in 1..Len(c2_x4) : c2_x4[k] = 4 * max_lat
    /\ \E k \in 1..Len(c2_x4) : c2_x4[k] = 4 * min_lat
    /\ \E k \in 1..Len(c2_x4) : c2_x4[k] > 4 * min_lat /\ c2_x4[k] < 4 * max_lat

\* the four returned arrays all have length len
LengthsAre(len) ==
    /\ Len(sat_time_num) = len
    /\ Len(c1_num) = len
    /\ Len(c2_x4) = len
    /\ c3_len = len

\* C7 as stated: for stop_time > start_time and n > 0 the call returns four
\* arrays of length floor((stop_time - start_time)/n)
C7_AnyDuration ==
    (SampleFinished /\ stop_time > start_time /\ cadence_n > 0) =>
        /\ SampleDone
        /\ LengthsAre((stop_time - start_time) \div cadence_n)

\* C7 amended: for 0 < n <= 5400 and stop_time - start_time >= n the call
\* returns four arrays of length floor((stop_time - start_time)/n) tagged
\* 'GDZ-sph', the partial last orbit contributing the samples the whole
\* orbits leave; start=0, stop=5400, n=2 gives 2700 samples
C7_Lengths ==
    /\ (SampleFinished /\ cadence_n > 0 /\ cadence_n <= OrbitPeriod
        /\ stop_time - start_time >= cadence_n) =>
          /\ SampleDone
          /\ LengthsAre((stop_time - start_time) \div cadence_n)
          /\ coord_tag = "GDZ-sph"
          /\ PartialLen(start_time, stop_time, cadence_n)
               = (stop_time - start_time) \div cadence_n
                 - WholeOrbits(start_time, stop_time, cadence_n) * orbit_seconds
    /\ NSamples(0, 5400, 2) = 2700
    /\ LatLen(0, 5400, 2) = 2700

\* C7 witness: a returned trajectory of at least one whole orbit plus a
\* partial last orbit
C7_Witness ==
    /\ SampleDone
    /\ WholeOrbits(start_time, stop_time, cadence_n) >= 1
    /\ PartialLen(start_time, stop_time, cadence_n) >= 1
    /\ (stop_time - start_time) % cadence_n # 0
    /\ LengthsAre((stop_time - start_time) \div cadence_n)


\* ------------------------------------------------------------------------
\* ModelFlythrough.  Callers share only the file system.  The collaborators
\* (U.MW, U.Prepare_Files, U.Model_SatelliteFlythrough, WO.SF_write,
\* SatPlot4D) are taken to succeed; every call to one is logged in calls,
\* and the files U.Prepare_Files, WO.SF_write and SatPlot4D leave behind are
\* added to fs.

Callers == {"a", "b"}

\* s splits at its first '.' into Head and Rest
HasDot(s) == \E k \in 1..Len(s) : s[k] = "."

FirstDot(s) == CHOOSE k \in 1..Len(s) : s[k] = "." /\ \A m \in 1..(k - 1) : s[m] # "."

\* output_name.split('.') of line 401
RECURSIVE SplitDot(_)
SplitDot(s) ==
    IF ~HasDot(s) THEN << s >>
    ELSE << SubSeq(s, 1, FirstDot(s) - 1) >>
         \o SplitDot(SubSeq(s, FirstDot(s) + 1, Len(s)))

\* output_type of line 401: output_name.split('.')[-1]
OutputType(name) == SplitDot(name)[Len(SplitDot(name))]

\* mutant of KnownOutputType: the test of line 402 accepts any extension
KnownOutputTypeAny(t) == TRUE

\* the test of line 402
KnownOutputType(t) ==
    t \in {<<"n", "c">>, <<"c", "s", "v">>, <<"t", "x", "t">>, << >>}

\* os.path.isfile of line 407
isfile(files, name) == name \in files

\* U.MW.convert_coordnames(plot_coord, 'car')[0] of line 463, for a
\* coordinate system given by name
convert_coordnames(coord) == coord

\* mutant of PlotCoordRejected: only 'SPH' is refused
PlotCoordRejectedSPHOnly(coord) == coord \in {"SPH"}

\* the test of line 464
PlotCoordRejected(coord) == coord \in {"SPH", "RLL"}

\* the file system after WO.SF_write(output_name, ...) of line 457, the
\* file name it returns taken to be output_name
SFwrite(files, name) == files \cup {name}

\* the file U.Prepare_Files keeps in file_dir for the model run
StagedFile == <<"d", "/", "s", "t", "a", "g", "e", "d">>

\* U.Prepare_Files of line 423: the files after the staging, which creates
\* the staged file unless it is in place
PrepareFiles(files) == files \cup {StagedFile}

\* s has pat at position k
OccursAt(s, pat, k) ==
    k + Len(pat) - 1 <= Len(s) /\ SubSeq(s, k, k + Len(pat) - 1) = pat

\* plot_output of line 473: output_name.split('.'+output_type)[0], the text
\* before the first '.'+output_type
PlotStem(name) ==
    LET pat == <<".">> \o OutputType(name)
        at == {k \in 1..Len(name) : OccursAt(name, pat, k)}
    IN IF at = {} THEN name
       ELSE SubSeq(name, 1, (CHOOSE k \in at : \A m \in at : k <= m) - 1)

\* the names of the variables found in the model data, in the order of
\* var_list (line 433)
VarNames == <<"rho", "T", "N_n">>

\* divfile of lines 478 and 482: plot_output+'_'+var+'_3D.html' and its 1D
\* twin
DivFile(name, var, kind) ==
    PlotStem(name) \o <<"_", var, IF kind = "3D" THEN "_3D.html" ELSE "_1D.html">>

\* SatPlot4D(..., divfile=..., displayplot=False) of lines 475-482: the plot
\* is saved in divfile
SatPlot4D(files, divfile) == files \cup {divfile}

OutputNames ==
    { << >>,
      <<"o", ".", "n", "c">>,
      <<"o", ".", "c", "s", "v">>,
      <<"o", ".", "x", "y", "z">>,
      <<"o", "u", "t">>,
      <<"o", ".", "n", "c", ".", "b">> }

PlotCoords == {"GEO", "SPH", "RLL"}

MFIdle ==
    [pc |-> "idle", output_name |-> << >>, plot_coord |-> "GEO", n_vars |-> 0,
     var_i |-> 0, calls |-> << >>, existed |-> FALSE, err |-> "",
     print_units |-> TRUE, verbose |-> FALSE, printed |-> << >>, ret |-> << >>,
     before |-> {}, written |-> {}]

\* mutant of UnitsOutput: the verbose report leaves the units out
UnitsOutputVerboseSilent(pu, vb) ==
    IF pu THEN <<"results_units">> ELSE << >>

\* what lines 441-447 print: the units mapping when _print_units, and the
\* units mapping, the result keys and a note when verbose
UnitsOutput(pu, vb) ==
    (IF pu THEN <<"results_units">> ELSE << >>)
    \o (IF vb THEN <<"results_units", "results_keys", "note">> ELSE << >>)

\* the objects line 484 hands back to the caller
ReturnValue == <<"results">>

MFInit ==
    /\ fs = {}
    /\ mf = [p \in Callers |-> MFIdle]

\* lines 345-398: the call; existed records whether output_name was a file
\* at that moment, before the files in place at that moment, and written the
\* files the call has written so far (history)
MFCall(p, name, coord, nv, pu, vb) ==
    /\ mf[p].pc = "idle"
    /\ mf' = [mf EXCEPT ![p] =
                 [pc |-> "check_ext", output_name |-> name, plot_coord |-> coord,
                  n_vars |-> nv, var_i |-> 0, calls |-> << >>,
                  existed |-> (name \in fs), err |-> "",
                  print_units |-> pu, verbose |-> vb, printed |-> << >>,
                  ret |-> << >>, before |-> fs, written |-> {}]]
    /\ UNCHANGED fs

\* lines 400-404
MFCheckExt(p) ==
    /\ mf[p].pc = "check_ext"
    /\ IF KnownOutputType(OutputType(mf[p].output_name))
       THEN mf' = [mf EXCEPT ![p].pc = "check_file"]
       ELSE mf' = [mf EXCEPT ![p].pc = "error", ![p].err = "extension"]
    /\ UNCHANGED fs

\* lines 406-410
MFCheckFile(p) ==
    /\ mf[p].pc = "check_file"
    /\ IF isfile(fs, mf[p].output_name)
       THEN mf' = [mf EXCEPT ![p].pc = "error", ![p].err = "exists"]
       ELSE mf' = [mf EXCEPT ![p].pc = "resolve"]
    /\ UNCHANGED fs

\* lines 412-420: model, variable and coordinate identifiers are resolved
MFResolve(p) ==
    /\ mf[p].pc = "resolve"
    /\ mf' = [mf EXCEPT ![p].pc = "stage",
                        ![p].calls = @ \o <<"convert_model_string",
                                            "convert_variablenames",
                                            "convert_coordnames">>]
    /\ UNCHANGED fs

\* lines 422-423: the model files are staged
MFPrepareFiles(p) ==
    /\ mf[p].pc = "stage"
    /\ fs' = PrepareFiles(fs)
    /\ mf' = [mf EXCEPT ![p].pc = "interp",
                        ![p].calls = @ \o <<"Prepare_Files">>,
                        ![p].written = @ \cup (PrepareFiles(fs) \ fs)]

\* lines 425-434
MFInterpolate(p) ==
    /\ mf[p].pc = "interp"
    /\ mf' = [mf EXCEPT ![p].pc = "units",
                        ![p].calls = @ \o <<"Model_SatelliteFlythrough">>]
    /\ UNCHANGED fs

\* lines 436-449: the units are merged; the output branch is taken for a
\* non-empty output_name
MFUnits(p) ==
    /\ mf[p].pc = "units"
    /\ mf' = [mf EXCEPT ![p].pc = IF mf[p].output_name # << >> THEN "write"
                                  ELSE "return",
                        ![p].calls = @ \o <<"coord_units", "Var_units">>,
                        ![p].printed = @ \o UnitsOutput(mf[p].print_units,
                                                        mf[p].verbose)]
    /\ UNCHANGED fs

\* the two lines printed after the write (lines 459-460)
WriteOutput == <<"(Output saved in ...)", "(Generating interactive plots...)">>

\* lines 450-460: the output file is written and reported
MFWrite(p) ==
    /\ mf[p].pc = "write"
    /\ fs' = SFwrite(fs, mf[p].output_name)
    /\ mf' = [mf EXCEPT ![p].pc = "plot_check",
                        ![p].calls = @ \o <<"File_Times", "SF_write">>,
                        ![p].printed = @ \o WriteOutput,
                        ![p].written = @ \cup {mf[p].output_name}]

\* lines 462-473: the plot coordinate name is resolved and checked
MFPlotCheck(p) ==
    /\ mf[p].pc = "plot_check"
    /\ IF PlotCoordRejected(convert_coordnames(mf[p].plot_coord))
       THEN mf' = [mf EXCEPT ![p].pc = "error", ![p].err = "plot_coord",
                             ![p].calls = @ \o <<"convert_coordnames">>]
       ELSE mf' = [mf EXCEPT ![p].pc = "plot", ![p].var_i = 0,
                             ![p].calls = @ \o <<"convert_coordnames">>]
    /\ UNCHANGED fs

\* lines 470-478: the loop test and the first call of an iteration, which
\* saves the 3D plot of the variable
MFPlot3D(p) ==
    /\ mf[p].pc = "plot"
    /\ IF mf[p].var_i < mf[p].n_vars
       THEN LET f3 == DivFile(mf[p].output_name, VarNames[mf[p].var_i + 1],
                              "3D")
            IN /\ fs' = SatPlot4D(fs, f3)
               /\ mf' = [mf EXCEPT ![p].pc = "plot_1d",
                                   ![p].calls = @ \o <<"SatPlot4D_3D">>,
                                   ![p].written = @ \cup {f3}]
       ELSE /\ mf' = [mf EXCEPT ![p].pc = "return"]
            /\ UNCHANGED fs

\* lines 479-482: the second call of the iteration, which saves the 1D plot
\* of the variable
MFPlot1D(p) ==
    /\ mf[p].pc = "plot_1d"
    /\ LET f1 == DivFile(mf[p].output_name, VarNames[mf[p].var_i + 1], "1D")
       IN /\ fs' = SatPlot4D(fs, f1)
          /\ mf' = [mf EXCEPT ![p].pc = "plot", ![p].var_i = @ + 1,
                              ![p].calls = @ \o <<"SatPlot4D_1D">>,
                              ![p].written = @ \cup {f1}]

\* line 484
MFReturn(p) ==
    /\ mf[p].pc = "return"
    /\ mf' = [mf EXCEPT ![p].pc = "done", ![p].ret = ReturnValue]
    /\ UNCHANGED fs

\* the caller is ready for its next call
MFNextCall(p) ==
    /\ mf[p].pc \in {"done", "error"}
    /\ mf' = [mf EXCEPT ![p] = MFIdle]
    /\ UNCHANGED fs

\* a caller invokes ModelFlythrough with the default _print_units and verbose
MFStart(p) ==
    /\ mf[p].pc = "idle"
    /\ \E name \in OutputNames, coord \in PlotCoords, nv \in 0..MaxVars :
          MFCall(p, name, coord, nv, TRUE, FALSE)

\* a caller invokes ModelFlythrough with any _print_units and verbose
MFStartAnyFlags(p) ==
    /\ mf[p].pc = "idle"
    /\ \E name \in OutputNames, coord \in PlotCoords, nv \in 0..MaxVars,
          pu \in BOOLEAN, vb \in BOOLEAN :
          MFCall(p, name, coord, nv, pu, vb)

MFNext ==
    \E p \in Callers :
        \/ MFStart(p) /\ UNCHANGED <<tleVars, smpVars, satVars, cliVars>>
        \/ MFCheckExt(p) /\ UNCHANGED <<tleVars, smpVars, satVars, cliVars>>
        \/ MFCheckFile(p) /\ UNCHANGED <<tleVars, smpVars, satVars, cliVars>>
        \/ MFResolve(p) /\ UNCHANGED <<tleVars, smpVars, satVars, cliVars>>
        \/ MFPrepareFiles(p) /\ UNCHANGED <<tleVars, smpVars, satVars, cliVars>>
        \/ MFInterpolate(p) /\ UNCHANGED <<tleVars, smpVars, satVars, cliVars>>
        \/ MFUnits(p) /\ UNCHANGED <<tleVars, smpVars, satVars, cliVars>>
        \/ MFWrite(p) /\ UNCHANGED <<tleVars, smpVars, satVars, cliVars>>
        \/ MFPlotCheck(p) /\ UNCHANGED <<tleVars, smpVars, satVars, cliVars>>
        \/ MFPlot3D(p) /\ UNCHANGED <<tleVars, smpVars, satVars, cliVars>>
        \/ MFPlot1D(p) /\ UNCHANGED <<tleVars, smpVars, satVars, cliVars>>
        \/ MFReturn(p) /\ UNCHANGED <<tleVars, smpVars, satVars, cliVars>>
        \/ MFNextCall(p) /\ UNCHANGED <<tleVars, smpVars, satVars, cliVars>>

\* one caller alone, with every combination of the printing flags
MFSoloNext ==
    \/ MFStartAnyFlags("a") /\ UNCHANGED <<tleVars, smpVars, satVars, cliVars>>
    \/ MFCheckExt("a") /\ UNCHANGED <<tleVars, smpVars, satVars, cliVars>>
    \/ MFCheckFile("a") /\ UNCHANGED <<tleVars, smpVars, satVars, cliVars>>
    \/ MFResolve("a") /\ UNCHANGED <<tleVars, smpVars, satVars, cliVars>>
    \/ MFPrepareFiles("a") /\ UNCHANGED <<tleVars, smpVars, satVars, cliVars>>
    \/ MFInterpolate("a") /\ UNCHANGED <<tleVars, smpVars, satVars, cliVars>>
    \/ MFUnits("a") /\ UNCHANGED <<tleVars, smpVars, satVars, cliVars>>
    \/ MFWrite("a") /\ UNCHANGED <<tleVars, smpVars, satVars, cliVars>>
    \/ MFPlotCheck("a") /\ UNCHANGED <<tleVars, smpVars, satVars, cliVars>>
    \/ MFPlot3D("a") /\ UNCHANGED <<tleVars, smpVars, satVars, cliVars>>
    \/ MFPlot1D("a") /\ UNCHANGED <<tleVars, smpVars, satVars, cliVars>>
    \/ MFReturn("a") /\ UNCHANGED <<tleVars, smpVars, satVars, cliVars>>
    \/ MFNextCall("a") /\ UNCHANGED <<tleVars, smpVars, satVars, cliVars>>


\* ------------------------------------------------------------------------
\* Properties of ModelFlythrough

\* the text after the last '.' of name (all of name when it has no '.')
AfterLastDot(name) ==
    LET from == CHOOSE k \in 1..(Len(name) + 1) :
                    /\ \A m \in k..Len(name) : name[m] # "."
                    /\ k = 1 \/ name[k - 1] = "."
    IN SubSeq(name, from, Len(name))

RecognizedTypes == {<< >>, <<"n", "c">>, <<"c", "s", "v">>, <<"t", "x", "t">>}

Called(p, what) == \E k \in 1..Len(mf[p].calls) : mf[p].calls[k] = what

\* C8: a call whose output_name ends in an unrecognized extension has, once
\* past the test, failed with the extension error and has called no
\* collaborator: no resolution, staging, interpolation, write or plot
C8_UnknownExtension ==
    \A p \in Callers :
        (mf[p].pc \notin {"idle", "check_ext"}
         /\ AfterLastDot(mf[p].output_name) \notin RecognizedTypes)
        => /\ mf[p].pc = "error"
           /\ mf[p].err = "extension"
           /\ mf[p].calls = << >>

\* C8 witness: one caller has failed on the extension of a name with two
\* dots while the other caller has already interpolated
C8_Witness ==
    \E p, q \in Callers :
        /\ mf[p].pc = "error"
        /\ mf[p].err = "extension"
        /\ mf[p].output_name = <<"o", ".", "n", "c", ".", "b">>
        /\ Called(q, "Model_SatelliteFlythrough")

\* a call whose output_name was an existing file when the call began never
\* calls a collaborator and, once past the existence test, has failed
ExistingOutputRefused ==
    \A p \in Callers :
        mf[p].existed
        => /\ mf[p].calls = << >>
           /\ mf[p].pc \in {"check_ext", "check_file", "error"}
           /\ mf[p].output_name \in fs

\* a call has failed on an output file that an earlier call wrote
ExistingOutputMet ==
    \E p \in Callers :
        /\ mf[p].existed
        /\ mf[p].pc = "error"
        /\ mf[p].err = "exists"

\* C9 as stated: a call whose output_name was an existing file when the call
\* began fails before any resolution, staging or interpolation, and no call
\* writes a file that was in place when it began
C9_NoOverwrite ==
    /\ ExistingOutputRefused
    /\ \A p \in Callers : mf[p].written \cap mf[p].before = {}

\* C10: a call with non-empty output_name and plot_coord resolving to SPH or
\* RLL never reaches the plots nor returns, and has made no SatPlot4D call
C10_PlotCoordRejected ==
    \A p \in Callers :
        (mf[p].pc # "idle"
         /\ mf[p].output_name # << >>
         /\ convert_coordnames(mf[p].plot_coord) \in {"SPH", "RLL"})
        => /\ mf[p].pc \notin {"plot", "plot_1d", "return", "done"}
           /\ ~Called(p, "SatPlot4D_3D")
           /\ ~Called(p, "SatPlot4D_1D")
           /\ mf[p].pc = "error" => mf[p].err \in {"extension", "exists", "plot_coord"}

\* C10 witness: a call with variables to plot has written its output file
\* and failed on plot_coord RLL
C10_Witness ==
    \E p \in Callers :
        /\ mf[p].pc = "error"
        /\ mf[p].err = "plot_coord"
        /\ mf[p].plot_coord = "RLL"
        /\ mf[p].n_vars >= 1
        /\ Called(p, "SF_write")


\* the expensive steps: staging, interpolation and the output write
ExpensiveCalls == {"Prepare_Files", "Model_SatelliteFlythrough", "SF_write"}

\* C11 as stated: every input-validation error is raised before the model
\* files are staged, before the interpolation and before the output write
C11_FailFast ==
    \A p \in Callers :
        mf[p].pc = "error" => \A c \in ExpensiveCalls : ~Called(p, c)

\* C12 as stated: every successful call hands the merged units mapping back
\* to the caller
C12_UnitsReturned ==
    \A p \in Callers :
        mf[p].pc = "done"
        => \E k \in 1..Len(mf[p].ret) : mf[p].ret[k] = "results_units"

\* C12 amended: a successful call returns the results only; the merged units
\* mapping is printed exactly when _print_units or verbose is set and is
\* otherwise not surfaced
C12_UnitsPrinted ==
    \A p \in Callers :
        mf[p].pc = "done"
        => /\ mf[p].ret = <<"results">>
           /\ Called(p, "coord_units") /\ Called(p, "Var_units")
           /\ (\E k \in 1..Len(mf[p].printed) : mf[p].printed[k] = "results_units")
                 <=> (mf[p].print_units \/ mf[p].verbose)

\* C12 witness: a successful call with _print_units and verbose both off
\* has written its output file, printed no units and returned the results
C12_Witness ==
    \E p \in Callers :
        /\ mf[p].pc = "done"
        /\ ~mf[p].print_units /\ ~mf[p].verbose
        /\ mf[p].n_vars >= 1
        /\ Called(p, "SF_write")
        /\ mf[p].printed = WriteOutput
        /\ mf[p].ret = <<"results">>


\* C18 as stated: the returned sat_time starts at start_time and its
\* consecutive values are exactly n apart
C18_Cadence ==
    SampleDone
    => /\ Len(sat_time_num) >= 1 => sat_time_num[1] = start_time * sat_time_den
       /\ \A k \in 1..(Len(sat_time_num) - 1) :
             sat_time_num[k + 1] - sat_time_num[k] = cadence_n * sat_time_den

\* C19 as stated: the samples per orbit are 5400/n rounded to the nearest
\* integer
C19_Rounded ==
    (smp_pc # "idle" /\ cadence_n > 0)
    => 2 * Abs(OrbitPeriod - orbit_seconds * cadence_n) <= cadence_n

\* C19 amended: the samples per orbit are 5400/n truncated to an integer,
\* for every cadence n > 0; n = 1500 gives 3 and a cadence above 5400 gives
\* 0, with which no trajectory is returned
C19_Truncated ==
    /\ (smp_pc # "idle" /\ cadence_n > 0)
       => /\ orbit_seconds * cadence_n <= OrbitPeriod
          /\ OrbitPeriod < (orbit_seconds + 1) * cadence_n
    /\ (smp_pc # "idle" /\ cadence_n > OrbitPeriod)
       => (orbit_seconds = 0 /\ smp_pc = "error")
    /\ (smp_pc # "idle" /\ cadence_n = 1500) => orbit_seconds = 3

\* C19 witness: a trajectory returned for a cadence that does not divide
\* 5400 and whose quotient rounds up
C19_Witness ==
    /\ SampleDone
    /\ cadence_n = 1500
    /\ orbit_seconds = 3
    /\ Len(sat_time_num) >= 4

\* C21 as stated: the wrapping loops terminate: every pass after which the
\* loop goes on has changed lon (a pass that leaves lon as it was is followed
\* by the same pass for ever)
C21_WrapProgress ==
    [][(smp_pc \in {"wrap_hi", "wrap_lo"} /\ smp_pc' = smp_pc)
       => lon_num' # lon_num]_vars

\* the passes an ordinary lon_perorbit needs stay below the passes followed
WrapPassesSuffice ==
    lon_exp = 0 => wrap_passes < MaxPasses

\* C24 as stated: of two interleaved calls with the same non-empty
\* output_name at most one writes the output file
C24_SingleWriter ==
    \A p, q \in Callers :
        (p # q /\ mf[p].output_name # << >>
         /\ mf[p].output_name = mf[q].output_name)
        => ~(Called(p, "SF_write") /\ Called(q, "SF_write"))

\* ------------------------------------------------------------------------
\* Properties of the arrays TLETrajectory returns

\* C15 as stated: no array of results is the UTCtimestamps array or another
\* array of results
C15_NoAlias ==
    tle_pc \in {"read", "loop", "done"}
    => /\ \A f \in ResultKeys : tle_refs[f] # tle_refs.utc
       /\ \A f, g \in ResultKeys : f # g => tle_refs[f] # tle_refs[g]

\* C15 amended: c1, c2 and c3 are three arrays of their own, none of them
\* the UTCtimestamps array; sat_time is the UTCtimestamps array itself, and
\* the position stores leave it holding the timestamps
C15_PositionsApart ==
    tle_pc \in {"read", "loop", "done"}
    => /\ \A f \in {"c1", "c2", "c3"} :
             /\ tle_refs[f] # tle_refs.utc
             /\ tle_refs[f] # tle_refs.sat_time
             /\ \A g \in {"c1", "c2", "c3"} : f # g => tle_refs[f] # tle_refs[g]
       /\ tle_refs.sat_time = tle_refs.utc
       /\ tle_heap[tle_refs.sat_time] = UTCtimestamps
       /\ \A k \in 1..Len(UTCtimestamps) :
             tle_used[k] # -1
             => /\ tle_heap[tle_refs.c1][k][1] = "x"
                /\ tle_heap[tle_refs.c2][k][1] = "y"
                /\ tle_heap[tle_refs.c3][k][1] = "z"

\* C15 witness: positions have been stored for two or more timestamps
C15_Witness ==
    /\ tle_pc = "done"
    /\ Len(UTCtimestamps) >= 2
    /\ \A k \in 1..Len(tle_used) : tle_used[k] # -1
    /\ tle_heap[tle_refs.c2][1][1] = "y"

\* C17: a call that returns has at least one sample, and a call whose time
\* range and cadence give no timestamps has ended in the error
C17_NeverEmpty ==
    /\ tle_pc = "done" => Len(UTCtimestamps) >= 1
    /\ (tle_pc # "idle" /\ UTCtimestamps = << >>) => tle_pc = "error"

\* C17 witness: a range and cadence giving exactly zero timestamps (n = -1)
\* ended in the error
C17_Witness ==
    /\ tle_pc = "error"
    /\ UTCtimestamps = << >>
    /\ start_utcts + time_cadence * (-1) = req_stop

\* ------------------------------------------------------------------------
\* TLETrajectory over days: the 24-hour cautions

\* times at or one second after midnight of the first days
DayTimes(first, last) == {d * DaySeconds + e : d \in first..last, e \in {0, 1}}

\* TLE files of one or two records with epochs on the first days
DayFiles == UNION {[1..m -> DayTimes(1, MaxEpochDay)] : m \in 1..2}

\* half a day, a day, and a day and a second
DayCadences == {DaySeconds \div 2, DaySeconds, DaySeconds + 1}

\* a caller invokes TLETrajectory with a time range of days
TLEStartDay ==
    /\ tle_pc = "idle"
    /\ \E file \in DayFiles, start \in {0, 1}, stop \in DayTimes(0, MaxStopDay),
          cad \in DayCadences, meth \in {"forward", "nearest"} :
            TLECall(file, start, stop, cad, meth)
    /\ UNCHANGED <<smpVars, mfVars, satVars, cliVars>>

TLEDayNext ==
    \/ TLEStartDay
    \/ TLERead
    \/ TLELoopStep
    \/ TLEReturn

\* a Caution line of the given kind has been printed
HasCaution(kind) == \E j \in 1..Len(cautions) : cautions[j][1] = kind

\* C20: forward: the 'before' caution is printed exactly when some timestamp
\* is more than 86400 s before the first epoch and the 'after' caution
\* exactly when some timestamp is more than 86400 s after the last epoch; a
\* call with timestamps never fails, and every such timestamp has a position
C20_ForwardCaution ==
    /\ TLEDone("forward")
       => /\ HasCaution("before")
               <=> \E k \in 1..Len(UTCtimestamps) :
                      At0(tle_epochs, 0) - UTCtimestamps[k] > 86400
          /\ HasCaution("after")
               <=> \E k \in 1..Len(UTCtimestamps) :
                      UTCtimestamps[k] - At0(tle_epochs, LastRec) > 86400
          /\ \A k \in 1..Len(UTCtimestamps) :
                (\/ At0(tle_epochs, 0) - UTCtimestamps[k] > 86400
                 \/ UTCtimestamps[k] - At0(tle_epochs, LastRec) > 86400)
                => /\ tle_used[k] # -1
                   /\ tle_heap[tle_refs.c1][k] # ZeroPos
    /\ (method = "forward" /\ tle_pc = "error") => UTCtimestamps = << >>
    /\ (method = "forward" /\ cautions # << >>) => tle_pc \in {"loop", "done"}

\* C20 witness: a forward call returned with a timestamp exactly 86400 s
\* before the first epoch and no 'before' caution, and with the 'after'
\* caution for a timestamp further than that from the last epoch
C20_Witness ==
    /\ TLEDone("forward")
    /\ \E k \in 1..Len(UTCtimestamps) :
          At0(tle_epochs, 0) - UTCtimestamps[k] = 86400
    /\ ~HasCaution("before")
    /\ HasCaution("after")
    /\ \E k \in 1..Len(UTCtimestamps) :
          /\ UTCtimestamps[k] - At0(tle_epochs, LastRec) > 86400
          /\ tle_used[k] = LastRec

\* the 'before' caution, reached for a gap of 86401 s
C20_BeforeReached ==
    /\ TLEDone("forward")
    /\ HasCaution("before")
    /\ \A k \in 1..Len(UTCtimestamps) :
          At0(tle_epochs, 0) - UTCtimestamps[k] <= 86401

\* C22: forward, a file of one or more records with non-decreasing epochs:
\* no position is stored twice while the loop runs, and at the return every
\* position has been stored exactly once and none is the initial zero
C22_WrittenOnce ==
    (method = "forward" /\ Chronological(tle_epochs)
     /\ Len(tle_epochs) >= 1 /\ tle_pc \in {"loop", "done"})
    => /\ \A k \in 1..Len(UTCtimestamps) : n_writes[k] <= 1
       /\ tle_pc = "done"
          => \A k \in 1..Len(UTCtimestamps) :
                /\ n_writes[k] = 1
                /\ tle_used[k] \in 0..LastRec
                /\ tle_heap[tle_refs.c1][k] # ZeroPos
                /\ tle_heap[tle_refs.c2][k] # ZeroPos
                /\ tle_heap[tle_refs.c3][k] # ZeroPos

\* C22 witness: a returned forward run over two or more records in
\* non-decreasing order with timestamps before the first epoch, between two
\* epochs and after the last, each stored once
C22_Witness ==
    /\ TLEDone("forward")
    /\ Chronological(tle_epochs)
    /\ Len(tle_epochs) >= 2
    /\ \E k \in 1..Len(UTCtimestamps) : UTCtimestamps[k] < At0(tle_epochs, 0)
    /\ \E k \in 1..Len(UTCtimestamps) :
          /\ UTCtimestamps[k] >= At0(tle_epochs, 0)
          /\ UTCtimestamps[k] < At0(tle_epochs, LastRec)
    /\ \E k \in 1..Len(UTCtimestamps) :
          UTCtimestamps[k] > At0(tle_epochs, LastRec)
    /\ \A k \in 1..Len(UTCtimestamps) : n_writes[k] = 1

\* C23 as stated: nearest: the 'before the first TLE' caution is printed
\* only if some timestamp is more than 86400 s earlier than the first epoch,
\* the 'after the last TLE' caution only if some timestamp is more than
\* 86400 s later than the last epoch
C23_NearestCaution ==
    TLEDone("nearest")
    => /\ HasCaution("before")
            => \E k \in 1..Len(UTCtimestamps) :
                   At0(tle_epochs, 0) - UTCtimestamps[k] > 86400
       /\ HasCaution("after")
            => \E k \in 1..Len(UTCtimestamps) :
                   UTCtimestamps[k] - At0(tle_epochs, LastRec) > 86400

\* ------------------------------------------------------------------------
\* SatelliteTrajectory (lines 60-100)
\* ------------------------------------------------------------------------

\* U.ts_to_ISOstring: the timestamp as an ISO-format string, kept opaque
ts_to_ISOstring(ts) == <<"iso", ts>>

\* mutant of SatCoordAccepted: the geodetic system is let through as well
SatCoordAcceptedWithGDZ(coord_type) ==
    coord_type \in {"GDZ", "GEO", "GSM", "GSE", "SM"}

\* the test of line 84
SatCoordAccepted(coord_type) ==
    coord_type \in {"GEO", "GSM", "GSE", "SM"}

\* 'X_'+coord_type+',Y_'+coord_type+',Z_'+coord_type of line 88, as the
\* list its split(',') gives, each name as prefix and coordinate type
SatParameters(coord_type) ==
    << <<"X_", coord_type>>, <<"Y_", coord_type>>, <<"Z_", coord_type>> >>

\* coord_type+'-car' of line 100, as its two parts
SatTag(coord_type) == <<coord_type, "-car">>

\* the coordinate types a caller may name: the nine of the module's table and
\* one that is not a coordinate system
SatCoordInputs ==
    {"GDZ", "GEO", "GSM", "GSE", "SM", "GEI", "MAG", "SPH", "RLL", "XYZ"}

SatDatasets == {"cnofs", "grace1"}

SatIdle ==
    [pc |-> "idle", dataset |-> "", start |-> << >>, stop |-> << >>,
     coord_in |-> "GEO", coord_type |-> "GEO", verbose |-> FALSE,
     parameters |-> << >>, calls |-> << >>, tag |-> << >>, err |-> ""]

SatInit == sat = SatIdle

\* lines 60-81: the call, the two time conversions, the name resolution
SatCall(dataset, start_ts, stop_ts, coord, vb) ==
    /\ sat.pc = "idle"
    /\ sat' = [pc |-> "check", dataset |-> dataset,
               start |-> ts_to_ISOstring(start_ts),
               stop |-> ts_to_ISOstring(stop_ts),
               coord_in |-> coord, coord_type |-> convert_coordnames(coord),
               verbose |-> vb, parameters |-> << >>,
               calls |-> <<"ts_to_ISOstring", "ts_to_ISOstring",
                           "convert_coordnames">>,
               tag |-> << >>, err |-> ""]

\* lines 84-88: reject the coordinate type or build the parameter list
SatCheck ==
    /\ sat.pc = "check"
    /\ sat' = IF SatCoordAccepted(sat.coord_type)
              THEN [sat EXCEPT !.pc = "fetch",
                               !.parameters = SatParameters(sat.coord_type)]
              ELSE [sat EXCEPT !.pc = "error", !.err = "coord_type"]

\* lines 91-96: the request to the HAPI server, which answers or fails
SatFetch ==
    /\ sat.pc = "fetch"
    /\ \E answered \in BOOLEAN :
          sat' = IF answered
                 THEN [sat EXCEPT !.pc = "return", !.calls = @ \o <<"HAPI">>]
                 ELSE [sat EXCEPT !.pc = "error", !.err = "HAPI",
                                  !.calls = @ \o <<"HAPI">>]

\* lines 98-100
SatReturn ==
    /\ sat.pc = "return"
    /\ sat' = [sat EXCEPT !.pc = "done", !.tag = SatTag(sat.coord_type)]

\* the caller goes on to another call
SatNextCall ==
    /\ sat.pc \in {"done", "error"}
    /\ sat' = SatIdle

\* a caller invokes SatelliteTrajectory
SatStart ==
    /\ sat.pc = "idle"
    /\ \E dataset \in SatDatasets, k0 \in 0..MaxStart, k1 \in 0..MaxStart,
          coord \in SatCoordInputs, vb \in BOOLEAN :
          SatCall(dataset, k0 * TimeStep, k1 * TimeStep, coord, vb)

SatNext ==
    \/ SatStart /\ UNCHANGED <<tleVars, smpVars, mfVars, cliVars>>
    \/ SatCheck /\ UNCHANGED <<tleVars, smpVars, mfVars, cliVars>>
    \/ SatFetch /\ UNCHANGED <<tleVars, smpVars, mfVars, cliVars>>
    \/ SatReturn /\ UNCHANGED <<tleVars, smpVars, mfVars, cliVars>>
    \/ SatNextCall /\ UNCHANGED <<tleVars, smpVars, mfVars, cliVars>>

SatContacted == \E k \in 1..Len(sat.calls) : sat.calls[k] = "HAPI"

\* C13: a coordinate type outside {GEO, GSM, GSE, SM} ends in the input error
\* with the ephemeris service never contacted; a call that returns has an
\* accepted type and returns the tag '<type>-car'
C13_SatCoordType ==
    /\ (sat.pc \notin {"idle", "check"}
        /\ sat.coord_type \notin {"GEO", "GSM", "GSE", "SM"})
       => (sat.pc = "error" /\ sat.err = "coord_type" /\ ~SatContacted)
    /\ sat.err = "coord_type"
       => sat.coord_type \notin {"GEO", "GSM", "GSE", "SM"}
    /\ sat.pc = "done"
       => /\ sat.coord_type \in {"GEO", "GSM", "GSE", "SM"}
          /\ sat.tag = <<sat.coord_in, "-car">>
          /\ SatContacted

\* C13 witness: a rejected geodetic request, the service not contacted
C13_Witness ==
    /\ sat.pc = "error"
    /\ sat.coord_in = "GDZ"
    /\ sat.err = "coord_type"
    /\ ~SatContacted

\* C13 second case reached: an accepted request returned its tag
C13_Returned ==
    /\ sat.pc = "done"
    /\ sat.tag = <<"GSM", "-car">>

\* ------------------------------------------------------------------------
\* Command line (lines 742-882)
\* ------------------------------------------------------------------------

\* the parameters of the four flight functions, in order (lines 487-490,
\* 556-557, 615-617, 675-676)
FlightParams(name) ==
    IF name = "FakeFlight"
    THEN <<"start_time", "stop_time", "model", "file_dir", "variable_list",
           "max_lat", "min_lat", "lon_perorbit", "max_height", "min_height",
           "p", "n", "high_res", "verbose", "output_name", "plot_coord">>
    ELSE IF name = "RealFlight"
    THEN <<"dataset", "start", "stop", "model", "file_dir", "variable_list",
           "coord_type", "output_name", "plot_coord", "high_res", "verbose">>
    ELSE IF name = "TLEFlight"
    THEN <<"tle_file", "start", "stop", "time_cadence", "model", "file_dir",
           "variable_list", "output_name", "plot_coord", "high_res",
           "verbose">>
    ELSE <<"traj_file", "model", "file_dir", "variable_list", "output_name",
           "plot_coord", "high_res", "verbose">>

\* the number of parameters without a default
FlightRequired(name) ==
    IF name = "FakeFlight" THEN 5
    ELSE IF name = "RealFlight" THEN 6
    ELSE IF name = "TLEFlight" THEN 7
    ELSE 4

\* the greatest index of argv the branch of the function reads (lines 777,
\* 809, 837, 864)
LastArgv(name) ==
    IF name = "FakeFlight" THEN 16
    ELSE IF name = "RealFlight" THEN 11
    ELSE IF name = "TLEFlight" THEN 12
    ELSE 9

\* the positional arguments of the call (lines 788, 818, 847, 872)
CallPositional(name) ==
    IF name = "FakeFlight"
    THEN <<"start_time", "stop_time", "model", "file_dir", "variable_list">>
    ELSE IF name = "RealFlight"
    THEN <<"dataset", "start", "stop", "model", "file_dir", "variable_list">>
    ELSE IF name = "TLEFlight"
    THEN <<"tle_file", "start", "stop", "time_cadence", "model", "file_dir",
           "variable_list">>
    ELSE <<"traj_file", "file_type", "model", "file_dir", "variable_list">>

\* the keyword arguments of the call (lines 788-793, 819-820, 849-850,
\* 874-875)
CallKeywords(name) ==
    IF name = "FakeFlight"
    THEN <<"max_lat", "min_lat", "lon_perorbit", "max_height", "min_height",
           "p", "n", "high_res", "verbose", "output_name", "plot_coord">>
    ELSE IF name = "RealFlight"
    THEN <<"coord_type", "output_name", "plot_coord", "high_res">>
    ELSE IF name = "TLEFlight"
    THEN <<"coord_type", "output_name", "plot_coord", "high_res">>
    ELSE <<"output_name", "plot_coord", "high_res">>

Elems(seq) == {seq[k] : k \in 1..Len(seq)}

\* Python's binding of a call: the error it raises, or "" when every
\* argument finds a parameter
BindError(params, required, pos, kw) ==
    IF Len(pos) > Len(params) THEN "too many positional arguments"
    ELSE IF \E k \in Elems(kw) : k \notin Elems(params)
    THEN "unexpected keyword argument"
    ELSE IF \E k \in Elems(kw) : \E i \in 1..Len(pos) : params[i] = k
    THEN "multiple values for argument"
    ELSE IF \E i \in 1..required :
                i > Len(pos) /\ params[i] \notin Elems(kw)
    THEN "missing required argument"
    ELSE ""

\* the parameter each argument of a call that binds is bound to: positional
\* arguments in order, keyword arguments by name
Binding(params, pos, kw) ==
    [a \in Elems(pos) \cup Elems(kw) |->
        IF a \in Elems(pos)
        THEN params[CHOOSE i \in 1..Len(pos) : pos[i] = a]
        ELSE a]

CLINames == {"FakeFlight", "RealFlight", "TLEFlight", "MyFlight", "CTIPe"}

FlightNames == {"FakeFlight", "RealFlight", "TLEFlight", "MyFlight"}

MaxArgc == 18

\* the output names and plot coordinate names given on the command line
CLIOutputNames == {<< >>, <<"o", ".", "n", "c">>, <<"o", ".", "x", "y", "z">>}

\* the values of n (argv[13]) given to FakeFlight: 6000 makes orbit_seconds 0
CLICadences == {5400, 6000}

\* the coordinate types (argv[8]) given to RealFlight
CLICoordTypes == {"GSM", "GDZ"}

\* the arguments read from argv that the flight uses
CLINoArgs ==
    [start |-> 0, stop |-> 0, n |-> 1, lon_perorbit |-> 0, max_lat |-> 0,
     min_lat |-> 0, dataset |-> "", coord_type |-> "GEO",
     output_name |-> << >>, plot_coord |-> "GEO"]

\* argv[2..16] of a FakeFlight invocation (lines 759-777)
FakeFlightArgs ==
    {[CLINoArgs EXCEPT !.stop = k * TimeStep, !.n = n, !.lon_perorbit = 363,
                       !.max_lat = 65, !.min_lat = -65,
                       !.output_name = name, !.plot_coord = coord] :
        k \in {0, 12}, n \in CLICadences, name \in CLIOutputNames,
        coord \in PlotCoords}

\* argv[2..11] of a RealFlight invocation (lines 795-809)
RealFlightArgs ==
    {[CLINoArgs EXCEPT !.dataset = "cnofs", !.start = TimeStep,
                       !.stop = 2 * TimeStep, !.coord_type = ct,
                       !.output_name = name, !.plot_coord = coord] :
        ct \in CLICoordTypes, name \in CLIOutputNames, coord \in PlotCoords}

\* argv of a TLEFlight or MyFlight invocation (lines 822-837, 852-864)
OtherFlightArgs ==
    {[CLINoArgs EXCEPT !.output_name = name, !.plot_coord = coord] :
        name \in CLIOutputNames, coord \in PlotCoords}

ArgsOf(name) ==
    IF name = "FakeFlight" THEN FakeFlightArgs
    ELSE IF name = "RealFlight" THEN RealFlightArgs
    ELSE OtherFlightArgs

CLIIdle ==
    [pc |-> "idle", argc |-> 1, name |-> "", err |-> "", out |-> "",
     bound |-> << >>, args |-> CLINoArgs]

CLIInit == cli = CLIIdle

\* the script is started with len(argv) = argc and, when there is one,
\* argv[1] = name
CLIStart ==
    /\ cli.pc = "idle"
    /\ \E argc \in 1..MaxArgc, name \in CLINames :
          /\ argc = 1 => name = "CTIPe"
          /\ cli' = [CLIIdle EXCEPT !.pc = "dispatch", !.argc = argc,
                                    !.name = IF argc = 1 THEN "" ELSE name]

\* lines 746-757 and 876-882: help, the branch of a flight function, or a
\* message
CLIDispatch ==
    /\ cli.pc = "dispatch"
    /\ cli' = IF cli.argc = 2
              THEN [cli EXCEPT !.pc = "done",
                               !.out = IF cli.name \in FlightNames
                                       THEN "help" ELSE "Model_Variables"]
              ELSE IF cli.argc > 2
              THEN IF cli.name \in FlightNames
                   THEN [cli EXCEPT !.pc = "gather"]
                   ELSE [cli EXCEPT !.pc = "done",
                                    !.out = "Call signature not recognized."]
              ELSE [cli EXCEPT !.pc = "done", !.out = "Possible call types"]

\* lines 759-777, 795-809, 822-837, 852-864: the arguments are read from
\* argv; an index past the end raises IndexError
CLIGather ==
    /\ cli.pc = "gather"
    /\ IF cli.argc <= LastArgv(cli.name)
       THEN cli' = [cli EXCEPT !.pc = "error", !.err = "IndexError"]
       ELSE \E a \in ArgsOf(cli.name) :
               cli' = [cli EXCEPT !.pc = "call", !.args = a]

\* lines 788-793, 818-820, 847-850, 872-875: the call of the flight function
CLICall ==
    /\ cli.pc = "call"
    /\ LET e == BindError(FlightParams(cli.name), FlightRequired(cli.name),
                          CallPositional(cli.name), CallKeywords(cli.name))
       IN cli' = IF e # ""
                 THEN [cli EXCEPT !.pc = "error", !.err = "TypeError",
                                  !.out = e]
                 ELSE [cli EXCEPT !.pc = "flight",
                                  !.bound = Binding(FlightParams(cli.name),
                                                    CallPositional(cli.name),
                                                    CallKeywords(cli.name))]

\* lines 540-545 and 603-605: the flight function asks its trajectory source
\* for the trajectory, FakeFlight SampleTrajectory and RealFlight
\* SatelliteTrajectory with the default verbose.  The calls of TLEFlight and
\* MyFlight have raised TypeError in CLICall and never get here.
CLITrajectory ==
    /\ cli.pc = "flight"
    /\ cli.name \in {"FakeFlight", "RealFlight"}
    /\ IF cli.name = "FakeFlight"
       THEN /\ SampleCall(cli.args.start, cli.args.stop, cli.args.n,
                          cli.args.lon_perorbit, cli.args.max_lat,
                          cli.args.min_lat)
            /\ UNCHANGED satVars
       ELSE /\ SatCall(cli.args.dataset, cli.args.start, cli.args.stop,
                       cli.args.coord_type, FALSE)
            /\ UNCHANGED smpVars
    /\ cli' = [cli EXCEPT !.pc = "trajectory"]

\* the trajectory source of the flight has returned, or has raised
SourceDone ==
    IF cli.name = "FakeFlight" THEN smp_pc = "done" ELSE sat.pc = "done"

SourceRaised ==
    IF cli.name = "FakeFlight" THEN smp_pc = "error" ELSE sat.pc = "error"

\* lines 548-552 and 607-611: the trajectory is handed to ModelFlythrough,
\* with the default _print_units and verbose off; an exception of the
\* trajectory source ends the script.  nv is the number of requested
\* variables the model data hold.
CLIModel ==
    /\ cli.pc = "trajectory"
    /\ SourceDone \/ SourceRaised
    /\ IF SourceRaised
       THEN /\ cli' = [cli EXCEPT !.pc = "error", !.err = "flight"]
            /\ UNCHANGED mfVars
       ELSE /\ cli' = [cli EXCEPT !.pc = "model"]
            /\ \E nv \in 0..MaxVars :
                  MFCall("a", cli.args.output_name, cli.args.plot_coord, nv,
                         TRUE, FALSE)

\* lines 553 and 612, 788 and 818: ModelFlythrough's result is the flight's
\* and the script's; its exception ends the script
CLIFinish ==
    /\ cli.pc = "model"
    /\ mf["a"].pc \in {"done", "error"}
    /\ cli' = IF mf["a"].pc = "done"
              THEN [cli EXCEPT !.pc = "done", !.out = "results"]
              ELSE [cli EXCEPT !.pc = "error", !.err = "flight"]

\* the memory of a process that has not yet called SampleTrajectory
SampleFresh ==
    /\ smp_pc' = "idle"
    /\ start_time' = 0
    /\ stop_time' = 0
    /\ cadence_n' = 1
    /\ lon_perorbit' = 0
    /\ max_lat' = 0
    /\ min_lat' = 0
    /\ orbit_seconds' = 0
    /\ lat_phase' = << >>
    /\ height_len' = 0
    /\ lon_num' = << >>
    /\ lon_den' = 1
    /\ lon_exp' = 0
    /\ wrap_passes' = 0
    /\ sat_time_num' = << >>
    /\ sat_time_den' = 1
    /\ c1_num' = << >>
    /\ c2_x4' = << >>
    /\ c3_len' = 0
    /\ coord_tag' = ""

\* the script is started again: a new process, the files of the earlier
\* runs still in place
CLIRestart ==
    /\ cli.pc \in {"done", "error"}
    /\ cli' = CLIIdle
    /\ mf' = [mf EXCEPT !["a"] = MFIdle]
    /\ sat' = SatIdle
    /\ SampleFresh
    /\ UNCHANGED fs

CLINext ==
    \/ CLIStart /\ UNCHANGED <<tleVars, smpVars, mfVars, satVars>>
    \/ CLIDispatch /\ UNCHANGED <<tleVars, smpVars, mfVars, satVars>>
    \/ CLIGather /\ UNCHANGED <<tleVars, smpVars, mfVars, satVars>>
    \/ CLICall /\ UNCHANGED <<tleVars, smpVars, mfVars, satVars>>
    \/ CLITrajectory /\ UNCHANGED <<tleVars, mfVars>>
    \/ SampleWrapHi /\ UNCHANGED <<tleVars, mfVars, satVars, cliVars>>
    \/ SampleWrapLo /\ UNCHANGED <<tleVars, mfVars, satVars, cliVars>>
    \/ SampleReturn /\ UNCHANGED <<tleVars, mfVars, satVars, cliVars>>
    \/ SatCheck /\ UNCHANGED <<tleVars, smpVars, mfVars, cliVars>>
    \/ SatFetch /\ UNCHANGED <<tleVars, smpVars, mfVars, cliVars>>
    \/ SatReturn /\ UNCHANGED <<tleVars, smpVars, mfVars, cliVars>>
    \/ CLIModel /\ UNCHANGED <<tleVars, smpVars, satVars>>
    \/ MFCheckExt("a") /\ UNCHANGED <<tleVars, smpVars, satVars, cliVars>>
    \/ MFCheckFile("a") /\ UNCHANGED <<tleVars, smpVars, satVars, cliVars>>
    \/ MFResolve("a") /\ UNCHANGED <<tleVars, smpVars, satVars, cliVars>>
    \/ MFPrepareFiles("a") /\ UNCHANGED <<tleVars, smpVars, satVars, cliVars>>
    \/ MFInterpolate("a") /\ UNCHANGED <<tleVars, smpVars, satVars, cliVars>>
    \/ MFUnits("a") /\ UNCHANGED <<tleVars, smpVars, satVars, cliVars>>
    \/ MFWrite("a") /\ UNCHANGED <<tleVars, smpVars, satVars, cliVars>>
    \/ MFPlotCheck("a") /\ UNCHANGED <<tleVars, smpVars, satVars, cliVars>>
    \/ MFPlot3D("a") /\ UNCHANGED <<tleVars, smpVars, satVars, cliVars>>
    \/ MFPlot1D("a") /\ UNCHANGED <<tleVars, smpVars, satVars, cliVars>>
    \/ MFReturn("a") /\ UNCHANGED <<tleVars, smpVars, satVars, cliVars>>
    \/ CLIFinish /\ UNCHANGED <<tleVars, smpVars, mfVars, satVars>>
    \/ CLIRestart /\ UNCHANGED tleVars

\* C16 as stated: for each of the four flight functions, an invocation with
\* the full argument list is never refused on the call signature
C16_CLIBinds ==
    (cli.name \in FlightNames /\ cli.argc = LastArgv(cli.name) + 1)
    => cli.err # "TypeError"

\* the two functions whose command-line call does bind, reached
C16_BoundReached ==
    /\ cli.pc = "flight"
    /\ cli.name = "RealFlight"
    /\ cli.bound["coord_type"] = "coord_type"
    /\ cli.bound["dataset"] = "dataset"

Init == TLEInit /\ SampleInit /\ MFInit /\ SatInit /\ CLIInit

SpecTLE == Init /\ [][TLENext]_vars

SpecTLETwice == Init /\ [][TLETwiceNext]_vars

SpecTLEDay == Init /\ [][TLEDayNext]_vars

SpecSample == Init /\ [][SampleNext]_vars

SpecSampleAnySize == Init /\ [][SampleAnySizeNext]_vars

SpecMF == Init /\ [][MFNext]_vars

SpecMFSolo == Init /\ [][MFSoloNext]_vars

SpecSat == Init /\ [][SatNext]_vars

SpecCLI == Init /\ [][CLINext]_vars

====
